---- MODULE Spec2Model ----
(***************************************************************************)
(* Salt flux decomposition (src/src/decomposition.py, class SFD).          *)
(*                                                                         *)
(* A Python value is a record [kind, shape, data]: kind "ndarray" for a    *)
(* (masked) array, "None" for None, and the name of the exception for a    *)
(* computation that raised.  An array element is an exact rational         *)
(* [n, d] with d > 0 in lowest terms; the masked element is [n=0, d=0].    *)
(* Floating-point rounding is not modelled: the arithmetic is exact.       *)
(***************************************************************************)
EXTENDS Integers, Sequences, FiniteSets, TLC

(***************************************************************************)
(* Array elements: exact rationals and numpy.ma's masked element.          *)
(***************************************************************************)
Abs(i) == IF i < 0 THEN -i ELSE i

RECURSIVE GCD(_, _)
GCD(a, b) == IF b = 0 THEN a ELSE GCD(b, a % b)

Rat(n, d) ==
    LET g == GCD(Abs(n), Abs(d))
        s == IF d < 0 THEN -1 ELSE 1
    IN  [n |-> s * (n \div g), d |-> s * (d \div g)]

Num(i) == [n |-> i, d |-> 1]

masked == [n |-> 0, d |-> 0]

IsMasked(x) == x.d = 0

\* numpy.ma arithmetic: the mask of a result is the union of the operands' masks
ElAdd(x, y) == IF IsMasked(x) \/ IsMasked(y) THEN masked
               ELSE Rat(x.n * y.d + y.n * x.d, x.d * y.d)

ElSub(x, y) == IF IsMasked(x) \/ IsMasked(y) THEN masked
               ELSE Rat(x.n * y.d - y.n * x.d, x.d * y.d)

ElMul(x, y) == IF IsMasked(x) \/ IsMasked(y) THEN masked
               ELSE Rat(x.n * y.n, x.d * y.d)

\* division in which a zero divisor silently gives zero
ElDivZeroFill(x, y) ==
    IF IsMasked(x) \/ IsMasked(y) THEN masked
    ELSE IF y.n = 0 THEN Num(0)
    ELSE Rat(x.n * y.d, x.d * y.n)

\* numpy.ma division: a zero divisor is outside the domain and gives masked
ElDiv(x, y) ==
    IF IsMasked(x) \/ IsMasked(y) \/ y.n = 0 THEN masked
    ELSE Rat(x.n * y.d, x.d * y.n)

(***************************************************************************)
(* Arrays: shape, index tuples (0-based), axis normalisation, broadcasting.*)
(***************************************************************************)
None == [kind |-> "None", shape |-> <<>>, data |-> <<>>]

Raise(exc) == [kind |-> exc, shape |-> <<>>, data |-> <<>>]

IsArray(a) == a.kind = "ndarray"

\* the index tuples of an array of at most three axes
Indices(shape) ==
    IF Len(shape) = 0 THEN {<<>>}
    ELSE IF Len(shape) = 1 THEN {<<i>> : i \in 0..(shape[1] - 1)}
    ELSE IF Len(shape) = 2
         THEN {<<i, j>> : i \in 0..(shape[1] - 1), j \in 0..(shape[2] - 1)}
    ELSE {<<i, j, k>> : i \in 0..(shape[1] - 1), j \in 0..(shape[2] - 1),
                        k \in 0..(shape[3] - 1)}

\* TLC evaluates a function expression anew at every application unless the
\* function has been enumerated; comparing it enumerates it once.
Enumerated(d) == IF d = d THEN d ELSE d

\* the array of the given shape and elements (a function on Indices(shape))
ndarray(shape, data) ==
    [kind |-> "ndarray", shape |-> shape, data |-> Enumerated(data)]

RemoveAt(seq, k) ==
    [i \in 1..(Len(seq) - 1) |-> IF i < k THEN seq[i] ELSE seq[i + 1]]

InsertAt(seq, k, v) ==
    [i \in 1..(Len(seq) + 1) |->
        IF i < k THEN seq[i] ELSE IF i = k THEN v ELSE seq[i - 1]]

\* numpy's normalize_axis_index: the 1-based position of axis among ndim
\* axes, or 0 when the axis is out of bounds (numpy raises AxisError)
NormAxis(axis, ndim) ==
    IF axis >= 0 /\ axis < ndim THEN axis + 1
    ELSE IF axis < 0 /\ axis >= -ndim THEN axis + ndim + 1
    ELSE 0

\* elements of a along (1-based) axis k at the reduced index idx
RECURSIVE SumAlong(_, _, _, _)
SumAlong(a, k, idx, j) ==
    IF j < 0 THEN Num(0)
    ELSE LET x == a.data[InsertAt(idx, k, j)]
             rest == SumAlong(a, k, idx, j - 1)
         IN  IF IsMasked(x) THEN rest ELSE ElAdd(x, rest)

RECURSIVE CountAlong(_, _, _, _)
CountAlong(a, k, idx, j) ==
    IF j < 0 THEN 0
    ELSE (IF IsMasked(a.data[InsertAt(idx, k, j)]) THEN 0 ELSE 1)
         + CountAlong(a, k, idx, j - 1)

\* a mutant of ma_sum: one masked element along the axis masks the sum
ma_sum_any_masked(a, axis) ==
    IF ~IsArray(a) THEN a
    ELSE LET k == NormAxis(axis, Len(a.shape))
         IN  IF k = 0 THEN Raise("AxisError")
             ELSE ndarray(RemoveAt(a.shape, k),
                     [i \in Indices(RemoveAt(a.shape, k)) |->
                        IF CountAlong(a, k, i, a.shape[k] - 1) < a.shape[k] THEN masked
                        ELSE SumAlong(a, k, i, a.shape[k] - 1)])

\* numpy.ma.sum(a, axis): masked elements count as 0; the result is masked
\* where every element along the axis is masked
ma_sum(a, axis) ==
    IF ~IsArray(a) THEN a
    ELSE LET k == NormAxis(axis, Len(a.shape))
         IN  IF k = 0 THEN Raise("AxisError")
             ELSE ndarray(RemoveAt(a.shape, k),
                     [i \in Indices(RemoveAt(a.shape, k)) |->
                        IF CountAlong(a, k, i, a.shape[k] - 1) = 0 THEN masked
                        ELSE SumAlong(a, k, i, a.shape[k] - 1)])

\* numpy.ma.mean(a, axis): the sum of the unmasked elements over their count;
\* a zero count is a division by zero and gives masked
ma_mean(a, axis) ==
    IF ~IsArray(a) THEN a
    ELSE LET k == NormAxis(axis, Len(a.shape))
         IN  IF k = 0 THEN Raise("AxisError")
             ELSE ndarray(RemoveAt(a.shape, k),
                     [i \in Indices(RemoveAt(a.shape, k)) |->
                        LET cnt == CountAlong(a, k, i, a.shape[k] - 1)
                        IN  IF cnt = 0 THEN masked
                            ELSE ElDiv(SumAlong(a, k, i, a.shape[k] - 1), Num(cnt))])

\* numpy.expand_dims(a, axis): a size-1 axis at position axis of the result
expand_dims(a, axis) ==
    IF ~IsArray(a) THEN a
    ELSE LET k == NormAxis(axis, Len(a.shape) + 1)
         IN  IF k = 0 THEN Raise("AxisError")
             ELSE ndarray(InsertAt(a.shape, k, 1),
                     [i \in Indices(InsertAt(a.shape, k, 1)) |-> a.data[RemoveAt(i, k)]])

\* numpy broadcasting: shapes are aligned on their last axes and size-1 axes
\* stretch; incompatible shapes raise ValueError
DimAt(shape, i, n) ==
    LET j == i - (n - Len(shape)) IN IF j >= 1 THEN shape[j] ELSE 1

BroadcastShape(sa, sb) ==
    LET n == IF Len(sa) > Len(sb) THEN Len(sa) ELSE Len(sb)
    IN  [i \in 1..n |->
            LET da == DimAt(sa, i, n)
                db == DimAt(sb, i, n)
            IN  IF da = db \/ db = 1 THEN da
                ELSE IF da = 1 THEN db
                ELSE -1]

Project(idx, shape) ==
    [k \in 1..Len(shape) |->
        IF shape[k] = 1 THEN 0 ELSE idx[k + (Len(idx) - Len(shape))]]

\* the operands of an arithmetic operation cannot be combined: one of them
\* is an exception already raised, or the shapes do not broadcast
Unbroadcastable(a, b) ==
    \/ ~IsArray(a)
    \/ ~IsArray(b)
    \/ \E i \in DOMAIN BroadcastShape(a.shape, b.shape) :
          BroadcastShape(a.shape, b.shape)[i] = -1

\* what the operation raises then
BroadcastError(a, b) ==
    IF ~IsArray(a) THEN a ELSE IF ~IsArray(b) THEN b ELSE Raise("ValueError")

\* the elements of a and b that meet at index i of the result
Left(a, b, i) == a.data[Project(i, a.shape)]

Right(a, b, i) == b.data[Project(i, b.shape)]

\* a mutant of Div: a zero divisor silently gives zero
DivZeroFill(a, b) ==
    IF Unbroadcastable(a, b) THEN BroadcastError(a, b)
    ELSE ndarray(BroadcastShape(a.shape, b.shape),
                 [i \in Indices(BroadcastShape(a.shape, b.shape)) |->
                    ElDivZeroFill(Left(a, b, i), Right(a, b, i))])

\* a * b
Mul(a, b) ==
    IF Unbroadcastable(a, b) THEN BroadcastError(a, b)
    ELSE ndarray(BroadcastShape(a.shape, b.shape),
                 [i \in Indices(BroadcastShape(a.shape, b.shape)) |->
                    ElMul(Left(a, b, i), Right(a, b, i))])

\* a - b
Sub(a, b) ==
    IF Unbroadcastable(a, b) THEN BroadcastError(a, b)
    ELSE ndarray(BroadcastShape(a.shape, b.shape),
                 [i \in Indices(BroadcastShape(a.shape, b.shape)) |->
                    ElSub(Left(a, b, i), Right(a, b, i))])

\* a + b
Add(a, b) ==
    IF Unbroadcastable(a, b) THEN BroadcastError(a, b)
    ELSE ndarray(BroadcastShape(a.shape, b.shape),
                 [i \in Indices(BroadcastShape(a.shape, b.shape)) |->
                    ElAdd(Left(a, b, i), Right(a, b, i))])

\* a / b
Div(a, b) ==
    IF Unbroadcastable(a, b) THEN BroadcastError(a, b)
    ELSE ndarray(BroadcastShape(a.shape, b.shape),
                 [i \in Indices(BroadcastShape(a.shape, b.shape)) |->
                    ElDiv(Left(a, b, i), Right(a, b, i))])

(***************************************************************************)
(* class SFD: reductions, components and fluxes.  self is the record of    *)
(* the instance's attributes.                                              *)
(***************************************************************************)
avg_time(self, variable) == ma_mean(variable, self.time_axis)

int_depth(self, variable) == ma_sum(variable, self.depth_axis)

avg_time_int_depth(self, variable) == avg_time(self, int_depth(self, variable))

expand_time(self, variable) == expand_dims(variable, self.time_axis)

expand_depth(self, variable) == expand_dims(variable, self.depth_axis)

\* func(variable) for func one of the bound methods self.avg_time,
\* self.int_depth and self.avg_time_int_depth, named by a string
Reduce(self, func, variable) ==
    IF func = "avg_time" THEN avg_time(self, variable)
    ELSE IF func = "int_depth" THEN int_depth(self, variable)
    ELSE avg_time_int_depth(self, variable)

_component(self, func, variable) ==
    Div(Reduce(self, func, Mul(variable, self.cross_section)),
        Reduce(self, func, self.cross_section))

component1(self, variable) == _component(self, "avg_time_int_depth", variable)

\* a mutant of component2: the net-flow baseline is not removed
component2_keeps_comp1(self, variable, comp1) == _component(self, "int_depth", variable)

component2(self, variable, comp1) ==
    Sub(_component(self, "int_depth", variable),
        expand_time(self, IF comp1.kind = "None" THEN component1(self, variable)
                          ELSE comp1))

\* the body of component_ once comp1 is settled
component_given(self, variable, comp1, comp2) ==
    Sub(variable,
        expand_depth(self, Add(IF comp2.kind = "None"
                               THEN component2(self, variable, comp1) ELSE comp2,
                               expand_time(self, comp1))))

component_(self, variable, comp1, comp2) ==
    component_given(self, variable,
                    IF comp1.kind = "None" THEN component1(self, variable) ELSE comp1,
                    comp2)

component3(self, variable, var_is_comp_) ==
    _component(self, "avg_time",
               IF ~var_is_comp_ THEN component_(self, variable, None, None)
               ELSE variable)

\* a mutant of component4: the estuarine contribution is not removed
component4_keeps_comp3(self, variable, var_is_comp_, comp3) ==
    IF ~var_is_comp_ THEN component_(self, variable, None, None) ELSE variable

\* the body of component4 once variable is the fluctuation component_
component4_given(self, variable, comp3) ==
    Sub(variable,
        expand_time(self, IF comp3.kind = "None" THEN component3(self, variable, TRUE)
                          ELSE comp3))

\* a mutant of component4: a supplied component 3 is removed twice
component4_removes_twice(self, variable, var_is_comp_, comp3) ==
    IF comp3.kind = "None"
    THEN component4_given(self, IF ~var_is_comp_
                                THEN component_(self, variable, None, None)
                                ELSE variable, comp3)
    ELSE Sub(component4_given(self, IF ~var_is_comp_
                                    THEN component_(self, variable, None, None)
                                    ELSE variable, comp3),
             expand_time(self, comp3))

component4(self, variable, var_is_comp_, comp3) ==
    component4_given(self,
                     IF ~var_is_comp_ THEN component_(self, variable, None, None)
                     ELSE variable,
                     comp3)

\* f(x) for f a callable handed to _calc_flux: a component method with its
\* defaults, a reduction, or lambda x: x
Call(self, f, x) ==
    IF f = "component1" THEN component1(self, x)
    ELSE IF f = "component2" THEN component2(self, x, None)
    ELSE IF f = "component3" THEN component3(self, x, FALSE)
    ELSE IF f = "component4" THEN component4(self, x, FALSE, None)
    ELSE IF f = "lambda x: x" THEN x
    ELSE Reduce(self, f, x)

_calc_flux(self, f_comp, f_cross_section) ==
    Mul(Mul(Call(self, f_comp, self.flow), Call(self, f_comp, self.salinity)),
        Call(self, f_cross_section, self.cross_section))

\* A property access: the instance after the access, the value returned (an
\* exception when the computation raised) and the fluxes it computed.
Got(self, v, computed) == [self |-> self, ret |-> v, computed |-> computed]

\* the end of a property whose slot was None: the computed value is stored in
\* the slot and returned; an exception leaves the slot as it was
Store(self, slot, k, v) ==
    IF IsArray(v) THEN Got([self EXCEPT ![slot] = v], v, {k}) ELSE Got(self, v, {})

\* a mutant of flux1: the reduced cross-section is left out of the product
flux1_without_area(self) ==
    IF self._flux0.kind = "None"
    THEN Store(self, "_flux0", 1,
               Mul(component1(self, self.flow), component1(self, self.salinity)))
    ELSE Got(self, self._flux0, {})

flux1(self) ==
    IF self._flux0.kind = "None"
    THEN Store(self, "_flux0", 1, _calc_flux(self, "component1", "avg_time_int_depth"))
    ELSE Got(self, self._flux0, {})

\* a mutant of flux2: it caches in the slot of flux1
flux2_in_slot_0(self) ==
    IF self._flux0.kind = "None"
    THEN Store(self, "_flux0", 2,
               avg_time(self, _calc_flux(self, "component2", "int_depth")))
    ELSE Got(self, self._flux0, {})

flux2(self) ==
    IF self._flux1.kind = "None"
    THEN Store(self, "_flux1", 2,
               avg_time(self, _calc_flux(self, "component2", "int_depth")))
    ELSE Got(self, self._flux1, {})

flux3(self) ==
    IF self._flux3.kind = "None"
    THEN Store(self, "_flux3", 3,
               int_depth(self, _calc_flux(self, "component3", "avg_time")))
    ELSE Got(self, self._flux3, {})

flux4(self) ==
    IF self._flux4.kind = "None"
    THEN Store(self, "_flux4", 4,
               avg_time_int_depth(self, _calc_flux(self, "component4", "lambda x: x")))
    ELSE Got(self, self._flux4, {})

Tuple(vals) == [kind |-> "tuple", shape |-> <<Len(vals)>>, data |-> vals]

\* a mutant of fluxes_tuple: flux2 and flux3 change places in the tuple
fluxes_swapped(r1, r2, r3, r4) ==
    IF \E r \in {r1, r2, r3, r4} : ~IsArray(r.ret) THEN r1
    ELSE Got(r4.self, Tuple(<<r1.ret, r3.ret, r2.ret, r4.ret>>),
             r1.computed \cup r2.computed \cup r3.computed \cup r4.computed)

\* the tuple fluxes returns from the four property accesses, or the first
\* exception one of them raised
fluxes_tuple(r1, r2, r3, r4) ==
    IF ~IsArray(r1.ret) THEN r1
    ELSE IF ~IsArray(r2.ret) THEN Got(r2.self, r2.ret, r1.computed \cup r2.computed)
    ELSE IF ~IsArray(r3.ret)
         THEN Got(r3.self, r3.ret, r1.computed \cup r2.computed \cup r3.computed)
    ELSE IF ~IsArray(r4.ret)
         THEN Got(r4.self, r4.ret,
                  r1.computed \cup r2.computed \cup r3.computed \cup r4.computed)
    ELSE Got(r4.self, Tuple(<<r1.ret, r2.ret, r3.ret, r4.ret>>),
             r1.computed \cup r2.computed \cup r3.computed \cup r4.computed)

\* self.flux4, read after the first three
fluxes_flux4(r1, r2, r3) == fluxes_tuple(r1, r2, r3, flux4(r3.self))

\* self.flux3, read after the first two
fluxes_flux3(r1, r2) == fluxes_flux4(r1, r2, flux3(r2.self))

\* self.flux2, read after the first
fluxes_flux2(r1) == fluxes_flux3(r1, flux2(r1.self))

fluxes(self) == fluxes_flux2(flux1(self))

\* kwargs is a set of <<key, value>> pairs; kwargs.get(key, default)
kwargs_get(kwargs, key, default) ==
    IF \E p \in kwargs : p[1] = key
    THEN (CHOOSE p \in kwargs : p[1] = key)[2]
    ELSE default

Attributes == {"flow", "salinity", "cross_section", "time_axis", "depth_axis",
               "_flux0", "_flux1", "_flux3", "_flux4"}

\* the instance before __init__ has set anything
Blank == [flow |-> None, salinity |-> None, cross_section |-> None,
          time_axis |-> 0, depth_axis |-> 0,
          _flux0 |-> None, _flux1 |-> None, _flux3 |-> None, _flux4 |-> None]

\* a mutant of __init__: the shape of cross_section is not compared
__init__two_shapes(flow_, salinity_, cross_section_, kwargs_) ==
    IF ~(flow_.shape = salinity_.shape)
    THEN [raised |-> "ValueError", self |-> Blank, attrs |-> {}]
    ELSE [raised |-> "",
          self |-> [flow |-> flow_, salinity |-> salinity_,
                    cross_section |-> cross_section_,
                    time_axis |-> kwargs_get(kwargs_, "time_axis", 0),
                    depth_axis |-> kwargs_get(kwargs_, "depth_axis", -1),
                    _flux0 |-> None, _flux1 |-> None,
                    _flux3 |-> None, _flux4 |-> None],
          attrs |-> Attributes]

\* SFD.__init__: the exception raised ("" for none), the instance and the
\* names of the attributes that were set
__init__(flow_, salinity_, cross_section_, kwargs_) ==
    IF ~(flow_.shape = salinity_.shape /\ salinity_.shape = cross_section_.shape)
    THEN [raised |-> "ValueError", self |-> Blank, attrs |-> {}]
    ELSE [raised |-> "",
          self |-> [flow |-> flow_, salinity |-> salinity_,
                    cross_section |-> cross_section_,
                    time_axis |-> kwargs_get(kwargs_, "time_axis", 0),
                    depth_axis |-> kwargs_get(kwargs_, "depth_axis", -1),
                    _flux0 |-> None, _flux1 |-> None,
                    _flux3 |-> None, _flux4 |-> None],
          attrs |-> Attributes]

(***************************************************************************)
(* State: the constructor's arguments, the instance, and what the last     *)
(* call returned or raised.  ncalc[k] counts the computations of flux k.   *)
(***************************************************************************)
VARIABLES flow, salinity, cross_section, kwargs, pc, self, attrs, raised, ret, ncalc

vars == <<flow, salinity, cross_section, kwargs, pc, self, attrs, raised, ret, ncalc>>

args == <<flow, salinity, cross_section, kwargs>>

Returned(op, val) == [op |-> op, val |-> val]

Construct ==
    /\ pc = "new"
    /\ \E r \in {__init__(flow, salinity, cross_section, kwargs)} :
          /\ raised' = r.raised
          /\ self' = r.self
          /\ attrs' = r.attrs
          /\ pc' = IF r.raised = "" THEN "constructed" ELSE "failed"
    /\ ret' = Returned("SFD", None)
    /\ UNCHANGED <<args, ncalc>>

\* an access to one of the properties flux1..flux4 or fluxes
Access(op, r) ==
    /\ pc = "constructed"
    /\ self' = r.self
    /\ ret' = Returned(op, r.ret)
    /\ raised' = IF r.ret.kind \in {"ndarray", "tuple"} THEN "" ELSE r.ret.kind
    /\ ncalc' = [k \in 1..4 |-> ncalc[k] + IF k \in r.computed THEN 1 ELSE 0]
    /\ UNCHANGED <<args, pc, attrs>>

GetFlux1 == \E r \in {flux1(self)} : Access("flux1", r)

GetFlux2 == \E r \in {flux2(self)} : Access("flux2", r)

GetFlux3 == \E r \in {flux3(self)} : Access("flux3", r)

GetFlux4 == \E r \in {flux4(self)} : Access("flux4", r)

GetFluxes == \E r \in {fluxes(self)} : Access("fluxes", r)

(***************************************************************************)
(* Inputs.  As in the tests' fixtures, a field is a uniform array with a   *)
(* value assigned to a slice that takes, per axis, the whole axis or its   *)
(* upper half.                                                             *)
(***************************************************************************)
NT == 2

NS == 2

ND == 2

Shape3 == <<NT, NS, ND>>

\* v * np.ones(shape)
Full(shape, v) == ndarray(shape, [i \in Indices(shape) |-> v])

Patterns == [1..3 -> BOOLEAN]

InSlice(i, shape, pat) ==
    \A k \in 1..Len(shape) : pat[k] => i[k] >= shape[k] \div 2

\* a[pat] = v
SliceAssign(a, pat, v) ==
    ndarray(a.shape,
            [i \in Indices(a.shape) |-> IF InSlice(i, a.shape, pat) THEN v ELSE a.data[i]])

\* the fields with base value b and slice value v, over all slices
Fields(shape, Bases, Slices) ==
    {SliceAssign(Full(shape, b), pat, v) : b \in Bases, v \in Slices, pat \in Patterns}

Nums(S) == {Num(v) : v \in S}

TypeStart ==
    /\ pc = "new"
    /\ self = Blank
    /\ attrs = {}
    /\ raised = ""
    /\ ret = Returned("", None)
    /\ ncalc = [k \in 1..4 |-> 0]

\* the fixtures of tests/test_sfd.py
FixtureDim == 10

FixtureSalinity == 30

FixtureShape == <<FixtureDim, FixtureDim, FixtureDim>>

DepthHalf == <<FALSE, FALSE, TRUE>>

SpaceDepthHalf == <<FALSE, TRUE, TRUE>>

Uniform(shape) ==
    [flow |-> Full(shape, Num(1)),
     salinity |-> Full(shape, Num(FixtureSalinity)),
     cross_section |-> Full(shape, Num(1))]

Wedge(shape) ==
    [flow |-> SliceAssign(Uniform(shape).flow, DepthHalf, Num(-1)),
     salinity |-> SliceAssign(Uniform(shape).salinity, DepthHalf, Num(0)),
     cross_section |-> Uniform(shape).cross_section]

Masked(shape) ==
    [flow |-> SliceAssign(Uniform(shape).flow, SpaceDepthHalf, masked),
     salinity |-> SliceAssign(Uniform(shape).salinity, SpaceDepthHalf, masked),
     cross_section |-> SliceAssign(Uniform(shape).cross_section, SpaceDepthHalf, masked)]

InitFixture(fixture) ==
    /\ flow = fixture.flow
    /\ salinity = fixture.salinity
    /\ cross_section = fixture.cross_section
    /\ kwargs = {}
    /\ TypeStart

(***************************************************************************)
(* SpecDecomp: the decomposition of unmasked fields, default axes.         *)
(***************************************************************************)
FlowVals == {-1, 1}

SalinityVals == {0, FixtureSalinity}

AreaVals == {1, 2}

InitDecomp ==
    \/ /\ flow \in Fields(Shape3, Nums(FlowVals), Nums(FlowVals))
       /\ salinity \in Fields(Shape3, Nums({FixtureSalinity}), Nums(SalinityVals))
       /\ cross_section \in Fields(Shape3, Nums(AreaVals), Nums(AreaVals \cup {0}))
       /\ kwargs = {}
       /\ TypeStart
    \/ InitFixture(Wedge(FixtureShape))

NextDecomp == Construct \/ GetFluxes

SpecDecomp == InitDecomp /\ [][NextDecomp]_vars

\* the transport avg_time_int_depth(flow * salinity * cross_section)
Total(s) == avg_time_int_depth(s, Mul(Mul(s.flow, s.salinity), s.cross_section))

FluxSum(s) == Add(Add(Add(s._flux0, s._flux1), s._flux3), s._flux4)

NonZero(a) ==
    IsArray(a) /\ \A i \in DOMAIN a.data : ~IsMasked(a.data[i]) /\ a.data[i].n # 0

AllEqual(a, v) == IsArray(a) /\ \A i \in DOMAIN a.data : a.data[i] = v

SomeNonZero(a) ==
    IsArray(a) /\ \E i \in DOMAIN a.data : ~IsMasked(a.data[i]) /\ a.data[i].n # 0

NonZeroReducedAreas(s) ==
    /\ NonZero(avg_time_int_depth(s, s.cross_section))
    /\ NonZero(int_depth(s, s.cross_section))
    /\ NonZero(avg_time(s, s.cross_section))

AfterFluxes == pc = "constructed" /\ ret.op = "fluxes" /\ ret.val.kind = "tuple"

TimeInvariant(a) ==
    \A i \in DOMAIN a.data : a.data[i] = a.data[<<0, i[2], i[3]>>]

IsWedge(s) ==
    /\ s.flow.shape[3] % 2 = 0
    /\ s.flow = Wedge(s.flow.shape).flow
    /\ s.salinity = Wedge(s.flow.shape).salinity
    /\ s.cross_section = Wedge(s.flow.shape).cross_section

UniformFlows == {-1, 0, 1, 2}

UniformSalinities == {0, 3, FixtureSalinity}

UniformAreas == {1, 2, 3}

Blocks == {pat \in Patterns : ~pat[1]}

InitUniform ==
    \/ /\ \E u \in UniformFlows, s \in UniformSalinities, a \in UniformAreas :
            \/ /\ flow = Full(Shape3, Num(u))
               /\ salinity = Full(Shape3, Num(s))
               /\ cross_section = Full(Shape3, Num(a))
            \/ \E block \in Blocks :
               /\ flow = SliceAssign(Full(Shape3, Num(u)), block, masked)
               /\ salinity = SliceAssign(Full(Shape3, Num(s)), block, masked)
               /\ cross_section = SliceAssign(Full(Shape3, Num(a)), block, masked)
       /\ kwargs = {}
       /\ TypeStart
    \/ InitFixture(Uniform(FixtureShape))
    \/ InitFixture(Masked(FixtureShape))

SpecUniform == InitUniform /\ [][NextDecomp]_vars

Unmasked(a) == {i \in DOMAIN a.data : ~IsMasked(a.data[i])}

\* the value of the unmasked cells of a uniform field
UniformValue(a) ==
    IF Unmasked(a) = {} THEN Num(0) ELSE a.data[CHOOSE i \in Unmasked(a) : TRUE]

IsUniform(a) == \A i \in Unmasked(a) : a.data[i] = UniformValue(a)

UniformFields(s) ==
    /\ IsUniform(s.flow) /\ IsUniform(s.salinity) /\ IsUniform(s.cross_section)
    /\ UniformValue(s.cross_section).n > 0 \/ Unmasked(s.cross_section) = {}

\* the same cells are masked in the three fields, at all times alike
SameBlockMasked(s) ==
    /\ Unmasked(s.flow) = Unmasked(s.salinity)
    /\ Unmasked(s.flow) = Unmasked(s.cross_section)
    /\ \A i \in DOMAIN s.flow.data :
          IsMasked(s.flow.data[i]) <=> IsMasked(s.flow.data[<<0, i[2], i[3]>>])

\* the number of unmasked depth cells at location x
DepthCells(s, x) ==
    Cardinality({d \in 0..(s.flow.shape[3] - 1) : ~IsMasked(s.flow.data[<<0, x, d>>])})

\* u * s * a * n
Product(s, n) ==
    ElMul(ElMul(ElMul(UniformValue(s.flow), UniformValue(s.salinity)),
                UniformValue(s.cross_section)), Num(n))

Locations(s) == 0..(s.flow.shape[2] - 1)

\* C4: for a uniform flow u, salinity s and cross-section a > 0 over the
\* whole (T, S, D) array, flux1 = u * s * a * D at every location and flux2,
\* flux3 and flux4 are 0 at every location.
C4_Uniform ==
    (AfterFluxes /\ UniformFields(self) /\ Unmasked(self.flow) = DOMAIN self.flow.data
        /\ SameBlockMasked(self))
        => /\ AllEqual(self._flux0, Product(self, self.flow.shape[3]))
           /\ AllEqual(self._flux1, Num(0))
           /\ AllEqual(self._flux3, Num(0))
           /\ AllEqual(self._flux4, Num(0))

\* C4 happens: the uniform fixture of shape (10, 10, 10) gives flux1 = 300
C4_Witness ==
    /\ AfterFluxes
    /\ self.flow = Uniform(FixtureShape).flow
    /\ self.salinity = Uniform(FixtureShape).salinity
    /\ self.cross_section = Uniform(FixtureShape).cross_section
    /\ AllEqual(self._flux0, Num(300))

InitZero ==
    /\ flow \in Fields(Shape3, Nums(FlowVals), Nums(FlowVals))
    /\ salinity = Full(Shape3, Num(FixtureSalinity))
    /\ cross_section \in Fields(Shape3, {Num(1)}, {Num(0), Num(1), masked})
    /\ kwargs = {}
    /\ TypeStart

SpecZero == InitZero /\ [][NextDecomp]_vars

\* c is masked wherever the divisor den is zero or masked
MaskedWhereZero(c, den) ==
    /\ IsArray(c)
    /\ c.shape = den.shape
    /\ \A i \in DOMAIN den.data :
          (IsMasked(den.data[i]) \/ den.data[i].n = 0) => c.data[i] = masked

\* C7: wherever the reduced cross-section that a component is divided by is
\* zero or masked, the component is masked there (no exception, no zero put
\* in its place), and the access to the fluxes still returns the four
\* arrays, with an element for every location.
C7_DivisionByZero ==
    /\ pc = "constructed" =>
         \A x \in {self.flow, self.salinity} :
            /\ MaskedWhereZero(component1(self, x),
                               avg_time_int_depth(self, self.cross_section))
            /\ MaskedWhereZero(component2(self, x, None),
                               int_depth(self, self.cross_section))
            /\ MaskedWhereZero(component3(self, x, FALSE),
                               avg_time(self, self.cross_section))
    /\ (pc = "constructed" /\ ret.op = "fluxes") =>
         /\ raised = ""
         /\ ret.val.kind = "tuple"
         /\ \A k \in 1..4 :
               /\ IsArray(ret.val.data[k])
               /\ DOMAIN ret.val.data[k].data = {<<x>> : x \in Locations(self)}

\* C7 happens: the cross-section sums to zero at one location, where flux1 is
\* masked, and not at another, where flux1 is a number
C7_Witness ==
    /\ AfterFluxes
    /\ \E x \in Locations(self) :
          /\ avg_time_int_depth(self, self.cross_section).data[<<x>>] = Num(0)
          /\ self._flux0.data[<<x>>] = masked
    /\ \E x \in Locations(self) : ~IsMasked(self._flux0.data[<<x>>])

(***************************************************************************)
(* SpecComp: the component methods called with and without the precomputed *)
(* upstream components.                                                    *)
(***************************************************************************)
InitComp ==
    /\ flow \in Fields(Shape3, Nums(FlowVals), Nums(FlowVals))
    /\ salinity \in {Uniform(Shape3).salinity, Wedge(Shape3).salinity}
    /\ cross_section \in Fields(Shape3, Nums(AreaVals), Nums(AreaVals))
    /\ kwargs = {}
    /\ TypeStart

\* for a field x: component2, component_, component3 and component4, each
\* called with the precomputed components and then with the defaults
CallComponents ==
    /\ pc = "constructed"
    /\ \E x \in {self.flow, self.salinity} :
          \E comp1 \in {component1(self, x)},
             comp2 \in {component2(self, x, None)},
             comp_ \in {component_(self, x, None, None)},
             comp3 \in {component3(self, x, FALSE)} :
             ret' = Returned("components", Tuple(<<
                 component2(self, x, comp1), comp2,
                 component_(self, x, comp1, comp2), comp_,
                 component3(self, comp_, TRUE), comp3,
                 component4(self, comp_, TRUE, comp3),
                 component4(self, x, FALSE, None)>>))
    /\ UNCHANGED <<args, pc, self, attrs, raised, ncalc>>

NextComp == Construct \/ CallComponents

SpecComp == InitComp /\ [][NextComp]_vars

\* C10: component2(x, comp1=component1(x)) = component2(x);
\* component_(x, comp1=component1(x), comp2=component2(x)) = component_(x);
\* component3(component_(x), var_is_comp_=True) = component3(x);
\* component4(component_(x), var_is_comp_=True, comp3=component3(x))
\* = component4(x).
C10_Precomputed ==
    ret.op = "components" =>
        /\ \A k \in 1..8 : IsArray(ret.val.data[k])
        /\ ret.val.data[1] = ret.val.data[2]
        /\ ret.val.data[3] = ret.val.data[4]
        /\ ret.val.data[5] = ret.val.data[6]
        /\ ret.val.data[7] = ret.val.data[8]

\* C10 happens: the four components of a field are all non-zero somewhere
C10_Witness ==
    /\ ret.op = "components"
    /\ \A k \in {2, 4, 6, 8} : SomeNonZero(ret.val.data[k])

(***************************************************************************)
(* SpecAxes: avg_time_int_depth under every pair of distinct time and      *)
(* depth axes of a three-axis field.                                       *)
(***************************************************************************)
AxisPairs ==
    {<<t, d>> \in (-3..2) \X (-3..2) : NormAxis(t, 3) # NormAxis(d, 3)}

InitAxes ==
    /\ flow \in Fields(Shape3, Nums({1}), Nums({1, 2}))
    /\ salinity = Full(Shape3, Num(FixtureSalinity))
    /\ cross_section = Full(Shape3, Num(1))
    /\ \E p \in AxisPairs : kwargs = {<<"time_axis", p[1]>>, <<"depth_axis", p[2]>>}
    /\ TypeStart

CallAvgTimeIntDepth ==
    /\ pc = "constructed"
    /\ \E v \in {avg_time_int_depth(self, self.flow)} :
          /\ ret' = Returned("avg_time_int_depth", v)
          /\ raised' = IF IsArray(v) THEN "" ELSE v.kind
    /\ UNCHANGED <<args, pc, self, attrs, ncalc>>

NextAxes == Construct \/ CallAvgTimeIntDepth

SpecAxes == InitAxes /\ [][NextAxes]_vars

\* the time-mean of the depth-sum of a three-axis field: the axis with the
\* larger position is reduced first, so the other keeps its position
TimeMeanOfDepthSum(a, time_axis, depth_axis) ==
    LET t == NormAxis(time_axis, 3) - 1
        d == NormAxis(depth_axis, 3) - 1
    IN  IF d > t THEN ma_mean(ma_sum(a, d), t) ELSE ma_sum(ma_mean(a, t), d)

\* C2: for every pair of distinct time and depth axes of a three-axis field,
\* avg_time_int_depth(field) is the time-mean of the depth-sum of the field,
\* indexed by the spatial axis only.
C2_AxisBookkeeping ==
    ret.op = "avg_time_int_depth" =>
        ret.val = TimeMeanOfDepthSum(self.flow, self.time_axis, self.depth_axis)

(***************************************************************************)
(* Spec: construction from fields of equal or differing shapes, then the   *)
(* accesses to flux1, flux2, flux3, flux4 and fluxes in any order.         *)
(***************************************************************************)
Shapes == {Shape3, <<NT, NS + 1, ND>>, <<NT + 1, NS, ND>>}

\* fields that vary along every axis
Varied(shape) ==
    [flow |-> SliceAssign(Full(shape, Num(1)), <<TRUE, FALSE, TRUE>>, Num(-1)),
     salinity |-> Wedge(shape).salinity,
     cross_section |-> SliceAssign(Full(shape, Num(1)), <<TRUE, TRUE, FALSE>>, Num(2))]

\* the default axes, the same axes spelled out, and a pair of axes under
\* which the reductions raise
KwargsSet ==
    {{}, {<<"depth_axis", 2>>}, {<<"time_axis", 0>>, <<"depth_axis", -1>>},
     {<<"time_axis", 2>>, <<"depth_axis", 0>>}}

Init ==
    /\ \E fixture \in {"Uniform", "Varied"}, sf \in Shapes, ss \in Shapes, sc \in Shapes :
          LET F(shape) == IF fixture = "Uniform" THEN Uniform(shape) ELSE Varied(shape)
          IN  /\ flow = F(sf).flow
              /\ salinity = F(ss).salinity
              /\ cross_section = F(sc).cross_section
    /\ kwargs \in KwargsSet
    /\ TypeStart

Next == Construct \/ GetFlux1 \/ GetFlux2 \/ GetFlux3 \/ GetFlux4 \/ GetFluxes

Spec == Init /\ [][Next]_vars

SameShapes == flow.shape = salinity.shape /\ salinity.shape = cross_section.shape

\* C3: constructing an SFD from fields that do not all have the same shape
\* raises ValueError and sets no attribute; with three equal shapes the
\* construction succeeds and sets every attribute.
C3_ShapeCheck ==
    pc # "new" =>
        IF SameShapes
        THEN pc = "constructed" /\ attrs = Attributes /\ self.flow = flow
             /\ self.salinity = salinity /\ self.cross_section = cross_section
        ELSE pc = "failed" /\ raised = "ValueError" /\ attrs = {} /\ self = Blank

\* C3 happens: only the cross-section differs in shape, and construction failed
C3_Witness ==
    /\ pc = "failed"
    /\ flow.shape = salinity.shape
    /\ cross_section.shape # flow.shape

Slot(s, k) ==
    IF k = 1 THEN s._flux0 ELSE IF k = 2 THEN s._flux1
    ELSE IF k = 3 THEN s._flux3 ELSE s._flux4

FluxOps == <<"flux1", "flux2", "flux3", "flux4">>

\* flux k of a newly constructed instance
Fresh(k) ==
    LET s == __init__(flow, salinity, cross_section, kwargs).self
    IN  IF k = 1 THEN flux1(s).ret ELSE IF k = 2 THEN flux2(s).ret
        ELSE IF k = 3 THEN flux3(s).ret ELSE flux4(s).ret

\* what a step of the instance does to the cache of flux k
CacheStep(k) ==
    /\ ncalc'[k] <= 1
    /\ Slot(self, k).kind # "None" =>
          /\ Slot(self', k) = Slot(self, k)
          /\ ncalc'[k] = ncalc[k]
          /\ ret'.op = FluxOps[k] => ret'.val = Slot(self, k)
    /\ (ret'.op \in {"flux1", "flux2", "flux3", "flux4"} /\ ret'.op # FluxOps[k]) =>
          Slot(self', k) = Slot(self, k)
    /\ (ret'.op = FluxOps[k] /\ IsArray(ret'.val)) =>
          /\ ret'.val = Fresh(k)
          /\ Slot(self', k) = ret'.val

\* C8: over any sequence of accesses each flux is computed at most once, on
\* its first access; a later access returns the cached value and computes
\* nothing; an accessor changes no slot but its own; and the value of flux k
\* is that of a new instance, whatever was accessed before.
C8_Caching == [][pc = "constructed" => \A k \in 1..4 : CacheStep(k)]_vars

\* C8 happens: flux2 is returned from the cache, after flux3 and flux1 were
\* computed, and the four values differ
C8_Witness ==
    /\ pc = "constructed"
    /\ ret.op = "flux2"
    /\ ret.val = self._flux1
    /\ ncalc = <<1, 1, 1, 0>>
    /\ \A j \in 1..3 : \A k \in 1..3 : j # k => Slot(self, j) # Slot(self, k)

\* C9: with the default axes and fields of shape (T, S, D), each flux has
\* shape (S,), and fluxes returns the 4-tuple (flux1, flux2, flux3, flux4),
\* after which every one of the four is cached.
C9_Shapes ==
    (pc = "constructed" /\ kwargs = {}) =>
        /\ \A k \in 1..4 :
              /\ Slot(self, k).kind # "None" => Slot(self, k).shape = <<flow.shape[2]>>
              /\ ret.op = FluxOps[k] =>
                    /\ raised = ""
                    /\ ret.val.shape = <<flow.shape[2]>>
        /\ ret.op = "fluxes" =>
              /\ raised = ""
              /\ ret.val.kind = "tuple"
              /\ Len(ret.val.data) = 4
              /\ \A k \in 1..4 :
                    /\ ret.val.data[k] = Fresh(k)
                    /\ ret.val.data[k] = Slot(self, k)
                    /\ ret.val.data[k].shape = <<flow.shape[2]>>

\* C9 happens: fluxes is the first access, on fields of shape (T, S + 1, D),
\* and computes the four fluxes
C9_Witness ==
    /\ pc = "constructed"
    /\ kwargs = {}
    /\ ret.op = "fluxes"
    /\ flow.shape = <<NT, NS + 1, ND>>
    /\ ncalc = <<1, 1, 1, 1>>
    /\ ret.val.data[2] # ret.val.data[3]

====
